---- MODULE Spec2Model ----
(***************************************************************************)
(* assets/rename_font.py: load ashell_icon.ttf, overwrite the naming       *)
(* records whose nameID is a key of name_map with the UTF-16BE encoding of *)
(* the mapped string, save the font back to the same path, close it and    *)
(* print a success message.                                                *)
(*                                                                         *)
(* Text is a sequence of Unicode code points, stored text a sequence of    *)
(* bytes.  The script is a straight line of statements; pc is the          *)
(* statement about to run.  An uncaught exception ends the process         *)
(* (pc = "aborted").  The script may be run again on the file it left.     *)
(***************************************************************************)
EXTENDS Naturals, Sequences, FiniteSets, TLC

VARIABLES
    disk,      \* the file at FONT_PATH
    font,      \* the TTFont object of the running process
    pc,        \* the statement the process is at
    idx,       \* position of the for loop in font["name"].names
    handle,    \* the file handle TTFont holds: "none", "open", "closed"
    stdout,    \* what the running process has printed
    before,    \* the file as it was when the running process started
    failedAt,  \* the statement that raised, "" when none did
    runs,      \* how many runs of the script have ended before this one
    previous   \* the run before this one: how it ended, the file it found and left

vars == <<disk, font, pc, idx, handle, stdout, before, failedAt, runs, previous>>

----------------------------------------------------------------------------
\* Bounds of the model.

\* The longest name table a font on disk starts with.
MaxRecords == 2

\* How many times the script is run on the same file.
MaxRuns == 2

----------------------------------------------------------------------------
\* Text and its encodings.

\* "Ashell Nerd Font"
AshellNerdFont ==
    <<65, 115, 104, 101, 108, 108, 32, 78, 101, 114, 100, 32, 70, 111, 110, 116>>

\* "Regular"
Regular == <<82, 101, 103, 117, 108, 97, 114>>

\* "AshellNerdFont-Regular"
AshellNerdFontRegularPS ==
    <<65, 115, 104, 101, 108, 108, 78, 101, 114, 100, 70, 111, 110, 116, 45,
      82, 101, 103, 117, 108, 97, 114>>

\* "Ashell Nerd Font Regular"
AshellNerdFontRegularFull ==
    <<65, 115, 104, 101, 108, 108, 32, 78, 101, 114, 100, 32, 70, 111, 110, 116,
      32, 82, 101, 103, 117, 108, 97, 114>>

\* The hardcoded mapping from nameID to the replacement string.
name_map ==
    (1 :> AshellNerdFont) @@ (2 :> Regular) @@ (3 :> AshellNerdFontRegularPS)
        @@ (4 :> AshellNerdFontRegularFull) @@ (6 :> AshellNerdFontRegularPS)

\* str.encode("utf-16-be"): every code point of the Basic Multilingual Plane
\* becomes its high byte followed by its low byte; a code point above it
\* becomes a surrogate pair, each half written the same way.
RECURSIVE EncodeUtf16BE(_)
EncodeUtf16BE(s) ==
    IF s = <<>> THEN <<>>
    ELSE LET c == Head(s)
             u == c - 65536
             hi == 55296 + (u \div 1024)
             lo == 56320 + (u % 1024)
         IN  IF c < 65536
             THEN <<c \div 256, c % 256>> \o EncodeUtf16BE(Tail(s))
             ELSE <<hi \div 256, hi % 256, lo \div 256, lo % 256>>
                      \o EncodeUtf16BE(Tail(s))

----------------------------------------------------------------------------
\* Fonts.

\* nameIDs of the records a font starts with: the five keys of name_map and
\* 16 (typographic family), which is not a key.
NameIDs == {1, 2, 3, 4, 6, 16}

\* (platformID, platEncID) of a record: Macintosh/Roman and Windows/Unicode BMP.
Platforms == {<<1, 0>>, <<3, 1>>}

\* Stored text a record starts with: "Ol" as UTF-16BE bytes, "Old" as
\* one-byte-per-character bytes.
OldStrings == {<<0, 79, 0, 108>>, <<79, 108, 100>>}

RecordSet ==
    [nameID : NameIDs, platform : Platforms, string : OldStrings]

\* Everything in the font file that is not the name table.
OtherData == {"glyphsA", "glyphsB"}

RECURSIVE SeqsUpTo(_, _)
SeqsUpTo(S, n) ==
    IF n = 0 THEN {<<>>}
    ELSE LET shorter == SeqsUpTo(S, n - 1)
         IN  shorter \cup {Append(s, x) : s \in {t \in shorter : Len(t) = n - 1}, x \in S}

\* The file at FONT_PATH: absent, not a font, cut short by an interrupted
\* write, or a font with or without a name table.
NoFile == [kind |-> "missing", hasName |-> FALSE, names |-> <<>>, other |-> "none"]
NotAFont == [kind |-> "invalid", hasName |-> FALSE, names |-> <<>>, other |-> "none"]
PartialFile == [kind |-> "partial", hasName |-> FALSE, names |-> <<>>, other |-> "none"]

FontFile(hasName, names, other) ==
    [kind |-> "font", hasName |-> hasName, names |-> names, other |-> other]

InitialFiles ==
    {NoFile, NotAFont}
        \cup {FontFile(TRUE, n, o) : n \in SeqsUpTo(RecordSet, MaxRecords), o \in OtherData}
        \cup {FontFile(FALSE, <<>>, o) : o \in OtherData}

\* No earlier run.
NoRun == [ok |-> FALSE, start |-> NoFile, disk |-> NoFile]

\* No TTFont object yet.
NoFont == [hasName |-> FALSE, names |-> <<>>, other |-> "none"]

----------------------------------------------------------------------------
\* The statements of the script.

Init ==
    /\ disk \in InitialFiles
    /\ font = NoFont
    /\ pc = "load"
    /\ idx = 0
    /\ handle = "none"
    /\ stdout = <<>>
    /\ before = disk
    /\ failedAt = ""
    /\ runs = 0
    /\ previous = NoRun

\* An uncaught exception raised by statement `at` ends the process.
Raise(at) ==
    /\ pc' = "aborted"
    /\ failedAt' = at

\* Load, were a missing file opened as a new, empty font.
LoadOrCreate ==
    /\ pc = "load"
    /\ disk.kind \in {"font", "missing"}
    /\ font' = IF disk.kind = "font"
               THEN [hasName |-> disk.hasName, names |-> disk.names, other |-> disk.other]
               ELSE [hasName |-> TRUE, names |-> <<>>, other |-> "none"]
    /\ handle' = "open"
    /\ pc' = "names"
    /\ UNCHANGED <<disk, idx, stdout, before, failedAt, runs, previous>>

\* font = TTFont(FONT_PATH): the file is opened and read as a font.
Load ==
    /\ pc = "load"
    /\ disk.kind = "font"
    /\ font' = [hasName |-> disk.hasName, names |-> disk.names, other |-> disk.other]
    /\ handle' = "open"
    /\ pc' = "names"
    /\ UNCHANGED <<disk, idx, stdout, before, failedAt, runs, previous>>

\* font = TTFont(FONT_PATH) raises: no file at the path, or not a font.
LoadFail ==
    /\ pc = "load"
    /\ disk.kind # "font"
    /\ Raise("load")
    /\ UNCHANGED <<disk, font, idx, handle, stdout, before, runs, previous>>

\* font["name"].names: the list the for loop iterates.
GetNames ==
    /\ pc = "names"
    /\ font.hasName
    /\ idx' = 1
    /\ pc' = "loop"
    /\ UNCHANGED <<disk, font, handle, stdout, before, failedAt, runs, previous>>

\* font["name"] raises KeyError: the font has no name table.
GetNamesFail ==
    /\ pc = "names"
    /\ ~font.hasName
    /\ Raise("loop")
    /\ UNCHANGED <<disk, font, idx, handle, stdout, before, runs, previous>>

\* RewriteRecord, were a record that is no key of name_map given an empty
\* string (name_map.get(record.nameID, "")).
RewriteEveryRecord(record) ==
    IF record.nameID \in DOMAIN name_map
    THEN [record EXCEPT !.string = EncodeUtf16BE(name_map[record.nameID])]
    ELSE [record EXCEPT !.string = <<>>]

\* RewriteRecord, were the new bytes added to the stored bytes (+=).
RewriteRecordAppending(record) ==
    IF record.nameID \in DOMAIN name_map
    THEN [record EXCEPT !.string = record.string \o EncodeUtf16BE(name_map[record.nameID])]
    ELSE record

\* RewriteRecord, were the record also made a Windows/Unicode BMP record.
RewriteRecordAsWindows(record) ==
    IF record.nameID \in DOMAIN name_map
    THEN [record EXCEPT !.string = EncodeUtf16BE(name_map[record.nameID]),
                        !.platform = <<3, 1>>]
    ELSE record

\* RewriteRecord, were the text encoded in the record's own encoding
\* (one byte per character in a Macintosh/Roman record).
RewriteRecordByPlatform(record) ==
    IF record.nameID \in DOMAIN name_map
    THEN [record EXCEPT !.string = IF record.platform = <<3, 1>>
                                   THEN EncodeUtf16BE(name_map[record.nameID])
                                   ELSE name_map[record.nameID]]
    ELSE record

\* The body of the for loop on one record.
RewriteRecord(record) ==
    IF record.nameID \in DOMAIN name_map
    THEN [record EXCEPT !.string = EncodeUtf16BE(name_map[record.nameID])]
    ELSE record

\* LoopStep, were the font saved inside the loop.
LoopStepSaving ==
    /\ pc = "loop"
    /\ idx <= Len(font.names)
    /\ font' = [font EXCEPT !.names[idx] = RewriteRecord(font.names[idx])]
    /\ disk' = [kind |-> "font", hasName |-> font'.hasName, names |-> font'.names,
                other |-> font'.other]
    /\ idx' = idx + 1
    /\ UNCHANGED <<pc, handle, stdout, before, failedAt, runs, previous>>

\* One iteration of the for loop.
LoopStep ==
    /\ pc = "loop"
    /\ idx <= Len(font.names)
    /\ font' = [font EXCEPT !.names[idx] = RewriteRecord(font.names[idx])]
    /\ idx' = idx + 1
    /\ UNCHANGED <<disk, pc, handle, stdout, before, failedAt, runs, previous>>

\* The for loop is exhausted.
LoopExit ==
    /\ pc = "loop"
    /\ idx > Len(font.names)
    /\ pc' = "save"
    /\ UNCHANGED <<disk, font, idx, handle, stdout, before, failedAt, runs, previous>>

\* SavedFile, were the name table alone written.
SavedNameTableOnly(f) == FontFile(f.hasName, f.names, "none")

\* The file font.save writes.
SavedFile(f) == FontFile(f.hasName, f.names, f.other)

\* font.save(FONT_PATH) completes.
Save ==
    /\ pc = "save"
    /\ disk' = SavedFile(font)
    /\ pc' = "close"
    /\ UNCHANGED <<font, idx, handle, stdout, before, failedAt, runs, previous>>

\* SaveFailUnwritten, were the exception caught and dropped.
SaveFailSwallowed ==
    /\ pc = "save"
    /\ pc' = "close"
    /\ UNCHANGED <<disk, font, idx, handle, stdout, before, failedAt, runs, previous>>

\* font.save(FONT_PATH) raises before it has written to the path.
SaveFailUnwritten ==
    /\ pc = "save"
    /\ Raise("save")
    /\ UNCHANGED <<disk, font, idx, handle, stdout, before, runs, previous>>

\* font.save(FONT_PATH) is interrupted while it writes.
SaveFailPartial ==
    /\ pc = "save"
    /\ disk' = PartialFile
    /\ Raise("save")
    /\ UNCHANGED <<font, idx, handle, stdout, before, runs, previous>>

\* font.close()
Close ==
    /\ pc = "close"
    /\ handle' = "closed"
    /\ pc' = "print"
    /\ UNCHANGED <<disk, font, idx, stdout, before, failedAt, runs, previous>>

SuccessMessage == "Font renamed and saved as ashell_icon.ttf"

\* print(...)
PrintSuccess ==
    /\ pc = "print"
    /\ stdout' = Append(stdout, SuccessMessage)
    /\ pc' = "done"
    /\ UNCHANGED <<disk, font, idx, handle, before, failedAt, runs, previous>>

\* The process has ended; the script is started again on the file it left.
Rerun ==
    /\ pc \in {"done", "aborted"}
    /\ runs + 1 < MaxRuns
    /\ runs' = runs + 1
    /\ previous' = [ok |-> pc = "done", start |-> before, disk |-> disk]
    /\ font' = NoFont
    /\ pc' = "load"
    /\ idx' = 0
    /\ handle' = "none"
    /\ stdout' = <<>>
    /\ before' = disk
    /\ failedAt' = ""
    /\ UNCHANGED disk

Next ==
    \/ Load
    \/ LoadFail
    \/ GetNames
    \/ GetNamesFail
    \/ LoopStep
    \/ LoopExit
    \/ Save
    \/ SaveFailUnwritten
    \/ SaveFailPartial
    \/ Close
    \/ PrintSuccess
    \/ Rerun

Spec == Init /\ [][Next]_vars

----------------------------------------------------------------------------
\* Reading stored text back.

\* bytes.decode("utf-16-be", errors="replace"): two bytes make a code unit,
\* a high surrogate followed by a low surrogate makes one code point, a
\* dangling byte or surrogate decodes to U+FFFD.
RECURSIVE DecodeUtf16BE(_)
DecodeUtf16BE(b) ==
    IF b = <<>> THEN <<>>
    ELSE IF Len(b) = 1 THEN <<65533>>
    ELSE LET u == b[1] * 256 + b[2]
             rest == SubSeq(b, 3, Len(b))
             v == rest[1] * 256 + rest[2]
         IN  IF u < 55296 \/ u > 57343
             THEN <<u>> \o DecodeUtf16BE(rest)
             ELSE IF u < 56320 /\ Len(rest) >= 2 /\ v >= 56320 /\ v <= 57343
             THEN <<65536 + (u - 55296) * 1024 + (v - 56320)>>
                      \o DecodeUtf16BE(SubSeq(rest, 3, Len(rest)))
             ELSE <<65533>> \o DecodeUtf16BE(rest)

\* bytes.decode("mac_roman") on bytes below 128, where Mac Roman is ASCII:
\* every byte is one character.
DecodeMacRoman(b) == b

\* The text a reader of the font gets from a record: Windows/Unicode BMP
\* text is UTF-16BE, Macintosh/Roman text is one byte per character.
DecodedText(record) ==
    IF record.platform = <<3, 1>>
    THEN DecodeUtf16BE(record.string)
    ELSE DecodeMacRoman(record.string)

----------------------------------------------------------------------------
\* Properties.

InMap(id) == id \in DOMAIN name_map

\* The process holds a TTFont object.
Loaded == handle # "none"

\* The for loop has run to its end.
LoopDone == pc \in {"save", "close", "print", "done"} \/ (pc = "aborted" /\ failedAt = "save")

\* font.save has returned.
SaveDone == pc \in {"close", "print", "done"}

\* Two name tables hold the same records, values aside.
SameRecords(a, b) ==
    /\ Len(a) = Len(b)
    /\ \A i \in 1..Len(a) :
          a[i].nameID = b[i].nameID /\ a[i].platform = b[i].platform

\* The bytes b are text t written two bytes per code point, high byte first.
IsUtf16BEOf(b, t) ==
    /\ Len(b) = 2 * Len(t)
    /\ \A k \in 1..Len(t) : b[2 * k - 1] = t[k] \div 256 /\ b[2 * k] = t[k] % 256

\* C1: after a successful run, every record of the file whose nameID is a key
\* of name_map decodes to the mapped text, whatever its platform/encoding.
C1_DecodedTextIsMapped ==
    pc = "done" =>
        \A i \in 1..Len(disk.names) :
            InMap(disk.names[i].nameID) =>
                DecodedText(disk.names[i]) = name_map[disk.names[i].nameID]

\* C2: a record whose nameID is not a key of name_map keeps its stored bytes:
\* in the TTFont object at every point of the run and in the file after the save.
C2_UnmappedUnchanged ==
    /\ Loaded =>
          /\ Len(font.names) = Len(before.names)
          /\ \A i \in 1..Len(before.names) :
                ~InMap(before.names[i].nameID) =>
                    font.names[i].string = before.names[i].string
    /\ SaveDone =>
          /\ Len(disk.names) = Len(before.names)
          /\ \A i \in 1..Len(before.names) :
                ~InMap(before.names[i].nameID) =>
                    disk.names[i].string = before.names[i].string

C2_Witness ==
    /\ pc = "done"
    /\ \E i, j \in 1..Len(disk.names) :
          /\ ~InMap(disk.names[i].nameID)
          /\ InMap(disk.names[j].nameID)
          /\ disk.names[j].string # before.names[j].string

\* C3: a successful run that follows a successful run leaves the name table
\* the earlier run left.
C3_Idempotent ==
    (pc = "done" /\ runs > 0 /\ previous.ok) => disk.names = previous.disk.names

C3_Witness ==
    /\ pc = "done"
    /\ runs > 0
    /\ previous.ok
    /\ previous.start.names # previous.disk.names

\* C4: started with no file at the path, the run fails at the load statement:
\* it gets no further, the path stays without a file, nothing is printed.
C4_MissingFileFailsAtLoad ==
    before.kind = "missing" =>
        /\ pc \in {"load", "aborted"}
        /\ pc = "aborted" => failedAt = "load"
        /\ disk.kind = "missing"
        /\ stdout = <<>>
        /\ font = NoFont

C4_Witness == before.kind = "missing" /\ pc = "aborted" /\ failedAt = "load"

\* C5: the run creates and deletes no record: the TTFont object, and the
\* file after the save, hold as many records as the file did at the start,
\* in the same order, each with its nameID and platform/encoding.
C5_RecordsPreserved ==
    /\ Loaded => SameRecords(font.names, before.names)
    /\ SaveDone => SameRecords(disk.names, before.names)

C5_Witness ==
    /\ pc = "done"
    /\ Len(disk.names) >= 2
    /\ \A i \in 1..Len(disk.names) : disk.names[i].string # before.names[i].string

C7_PrintOnlyAfterSave ==
    /\ Len(stdout) <= 1
    /\ stdout # <<>> =>
          (pc = "done" /\ failedAt = "" /\ stdout = <<SuccessMessage>>
              /\ disk = SavedFile(font))
    /\ pc = "aborted" => stdout = <<>>

C7_Witness == pc = "done" /\ stdout = <<SuccessMessage>> /\ disk # before

\* C8: an exception ends the run (nothing is printed or closed after it),
\* and the file is written by the save statement alone: up to the save, and
\* after a failure of the load or of the loop, the file is as it was at the
\* start; a file cut short comes from a failed save.
C8_DiskWrittenOnlyBySave ==
    /\ pc \in {"load", "names", "loop", "save"} => disk = before
    /\ (pc = "aborted" /\ failedAt \in {"load", "loop"}) => disk = before
    /\ pc = "aborted" => (failedAt # "" /\ stdout = <<>> /\ handle # "closed")
    /\ (disk # before /\ disk.kind = "partial") => (pc = "aborted" /\ failedAt = "save")

C8_Witness == pc = "aborted" /\ failedAt = "loop" /\ disk.kind = "font"

\* C9: a process that opened the font file has closed it (font.close) when
\* it ends, also when the loop or the save raised.
C9_HandleReleased ==
    (pc \in {"done", "aborted"} /\ handle # "none") => handle = "closed"

\* C10: once the loop is done, a record whose nameID is a key of name_map
\* holds the mapped text two bytes per code point, high byte first; two such
\* records with the same nameID, or with nameIDs 3 and 6, hold the same
\* bytes, whatever they held before and whatever their platform/encoding.
C10_BytesDependOnlyOnNameID ==
    LoopDone =>
        /\ \A i \in 1..Len(font.names) :
              InMap(font.names[i].nameID) =>
                  /\ IsUtf16BEOf(font.names[i].string, name_map[font.names[i].nameID])
                  /\ SaveDone => disk.names[i].string = font.names[i].string
        /\ \A i, j \in 1..Len(font.names) :
              (/\ InMap(font.names[i].nameID)
               /\ \/ font.names[j].nameID = font.names[i].nameID
                  \/ {font.names[i].nameID, font.names[j].nameID} = {3, 6})
                  => font.names[j].string = font.names[i].string

C10_Witness ==
    /\ pc = "done"
    /\ \E i, j \in 1..Len(disk.names) :
          /\ disk.names[i].nameID = 3
          /\ disk.names[j].nameID = 6
          /\ before.names[i].platform # before.names[j].platform
          /\ before.names[i].string # before.names[j].string
          /\ disk.names[i].string = disk.names[j].string

====
